---- MODULE Spec2Model ----
(***************************************************************************)
(* State-machine model of the WHB04B-4 pendant driver (src/src/whb04b-4.ts) *)
(* class Whb04b_4: the input dispatcher handleData, the command queue       *)
(* processCommandBuffer, the 'serialport:read' acknowledgment handler and   *)
(* the Grbl state / settings handlers.                                      *)
(*                                                                          *)
(* Numbers.  JavaScript numbers that carry fractions are kept as integers   *)
(* in thousandths ("milli"): a jog distance of 0.001 mm is 1, a velocity of *)
(* 3000 mm/min is 3000000.  NaN is the value NaN below and propagates       *)
(* through the arithmetic as in JavaScript.                                 *)
(***************************************************************************)
EXTENDS Integers, Sequences, FiniteSets, TLC

VARIABLES
    controllerState,  \* this.controllerState
    commandBuffer,    \* this.commandBuffer
    commandExecuted,  \* this.commandExecuted
    lastBuffer,       \* this.lastBuffer (Null, or the previous 8-byte report)
    lastVelocity,     \* this.lastVelocity (milli mm/min, or NaN)
    grblState,        \* this.grblState.status (activeState, spindle, wpos, mpos; positions in milli)
    grblSettings,     \* this.grblSettings.settings
    macros,           \* this.macros
    deviceHandle,     \* this.deviceHandle is defined: the pendant was found and opened
    connected,        \* this.connected
    display,          \* pendant side: the six output reports of the last display transfer
    wire,             \* controller side: lines written and not yet acknowledged
    actualMode,       \* controller side: distance mode after the last line written
    lastSwitch,       \* controller side: the last G90 / G91 line the queue wrote ("" before any)
    lastQueueType,    \* controller side: the Command type of the last line the queue wrote (-1 before any)
    tick,             \* the velocities the last handler computed in the continuous branch (Null if none)
    enc,              \* SpecEncode: a value in ten-thousandths and the two words encodeFloat made of it
    out,              \* what the last handler emitted on the socket, in order
    ev,               \* which handler ran last
    enqLog,           \* SpecQueue: codes passed to sendPositionGCode, in order
    sentLog           \* SpecQueue: codes written by the queue, in order

vars == <<controllerState, commandBuffer, commandExecuted, lastBuffer, lastVelocity,
          grblState, grblSettings, macros, deviceHandle, connected, display, wire, actualMode,
          lastSwitch, lastQueueType, tick, enc, out, ev, enqLog, sentLog>>

-----------------------------------------------------------------------------
(* Enumerations and constants of the source *)

Axis == [OFF |-> 6, X |-> 17, Y |-> 18, Z |-> 19, A |-> 20]

Feed == [MOVE_UNIT_2 |-> 13, MOVE_UNIT_5 |-> 14, MOVE_UNIT_10 |-> 15, MOVE_UNIT_30 |-> 16,
         MOVE_UNIT_60 |-> 26, MOVE_UNIT_100 |-> 27, MOVE_UNIT_LEAD |-> 28]

\* step sizes in thousandths of a millimetre (0.001 -> 1, ..., 1 -> 1000)
FeedStepMap == (13 :> 1) @@ (14 :> 10) @@ (15 :> 100) @@ (16 :> 1000) @@
               (26 :> 1000) @@ (27 :> 1000) @@ (28 :> 1000)

ControllerBuffer == [unknown |-> 0, BUTTON_CODE |-> 2, FN_BUTTON_CODE |-> 3,
                     FEED |-> 4, AXIS |-> 5, JOG |-> 6]

JogMode == [CONTINUOUS |-> 0, STEP |-> 1]

CoordinateSystem == [machineCoordinates |-> 0, workCoordinates |-> 1]

CncState == [IDLE |-> 0, RUN |-> 1, HOLD |-> 2]

CommandType == [Position |-> 0, Other |-> 1]

Distance == [Absolute |-> 0, Relative |-> 1]

MAX_SPINDLE_SPEED == 25000
MIN_SPINDLE_SPEED == 5000
PROBE_DEPTH == 10
\* 24.2 mm, in thousandths
TOUCH_PLATE_THICKNESS == 24200
PROBE_FEEDRATE == 20
RETRACTION_DISTANCE == 4

buttonCodes == [reset |-> 1, stop |-> 2, startPause |-> 3, feedPlus |-> 4, feedMinus |-> 5,
                spindlePlus |-> 6, spindleMinus |-> 7, machineHome |-> 8, safeZ |-> 9,
                workingAreaHome |-> 10, spindleOnOff |-> 11, fn |-> 12, probeZ |-> 13,
                continuous |-> 14, step |-> 15, macro10 |-> 16]

Null == << >>

\* JavaScript's NaN: a value outside the range of every number the model computes
NaN == -2000000000

-----------------------------------------------------------------------------
(* JavaScript arithmetic and formatting *)

isNaN(a) == a = NaN

jsAdd(a, b) == IF isNaN(a) \/ isNaN(b) THEN NaN ELSE a + b
jsSub(a, b) == IF isNaN(a) \/ isNaN(b) THEN NaN ELSE a - b
jsMul(a, b) == IF isNaN(a) \/ isNaN(b) THEN NaN ELSE a * b

\* Math.max: NaN when either argument is NaN
MathMax(a, b) == IF isNaN(a) \/ isNaN(b) THEN NaN ELSE IF a >= b THEN a ELSE b
MathMin(a, b) == IF isNaN(a) \/ isNaN(b) THEN NaN ELSE IF a <= b THEN a ELSE b

MathAbs(a) == IF isNaN(a) THEN NaN ELSE IF a < 0 THEN -a ELSE a
MathSign(a) == IF isNaN(a) THEN NaN ELSE IF a < 0 THEN -1 ELSE IF a > 0 THEN 1 ELSE 0

\* Math.round(n / d) for d > 0: the nearest integer, halves towards +infinity
RoundDiv(n, d) == IF isNaN(n) THEN NaN ELSE (2 * n + d) \div (2 * d)

\* parseFloat(settings[key]): NaN when the key is absent
parseFloat(settings, key) == IF key \in DOMAIN settings THEN settings[key] ELSE NaN

\* fraction digits of a number of thousandths, trailing zeros dropped
FmtFrac(f) ==
    IF f % 100 = 0 THEN ToString(f \div 100)
    ELSE IF f % 10 = 0 THEN (IF f < 100 THEN "0" ELSE "") \o ToString(f \div 10)
    ELSE (IF f < 10 THEN "00" ELSE IF f < 100 THEN "0" ELSE "") \o ToString(f)

\* `${milli / 1000}`: the shortest decimal of a number of thousandths
FmtMilli(m) ==
    IF isNaN(m) THEN "NaN"
    ELSE LET a == IF m < 0 THEN -m ELSE m
             s == IF m < 0 THEN "-" ELSE ""
         IN IF a % 1000 = 0 THEN s \o ToString(a \div 1000)
            ELSE s \o ToString(a \div 1000) \o "." \o FmtFrac(a % 1000)

IsSpace(ch) == ch \in {" ", "\n", "\t", "\r"}

RECURSIVE TrimLeft(_)
TrimLeft(s) == IF Len(s) > 0 /\ IsSpace(SubSeq(s, 1, 1)) THEN TrimLeft(SubSeq(s, 2, Len(s))) ELSE s

RECURSIVE TrimRight(_)
TrimRight(s) ==
    IF Len(s) > 0 /\ IsSpace(SubSeq(s, Len(s), Len(s))) THEN TrimRight(SubSeq(s, 1, Len(s) - 1)) ELSE s

\* String.prototype.trim
trim(s) == TrimRight(TrimLeft(s))

-----------------------------------------------------------------------------
(* The controller's reading of a line: its distance mode is set by the last *)
(* G90 or G91 word of the line.                                             *)

WordAt(s, w, i) ==
    /\ i + Len(w) - 1 <= Len(s)
    /\ SubSeq(s, i, i + Len(w) - 1) = w
    /\ (i = 1 \/ IsSpace(SubSeq(s, i - 1, i - 1)))
    /\ (i + Len(w) > Len(s) \/ IsSpace(SubSeq(s, i + Len(w), i + Len(w))))

ModeWords(s) == {i \in 1..Len(s) : WordAt(s, "G90", i) \/ WordAt(s, "G91", i)}

ModeAfter(mode, s) ==
    IF ModeWords(s) = {} THEN mode
    ELSE LET i == CHOOSE j \in ModeWords(s) : \A k \in ModeWords(s) : k <= j
         IN IF WordAt(s, "G91", i) THEN Distance.Relative ELSE Distance.Absolute

-----------------------------------------------------------------------------
(* The driver object while a handler runs: `this`, the emissions (out) and  *)
(* the codes passed to sendPositionGCode (enq) so far, and the controller's *)
(* distance mode.                                                           *)

This ==
    [cs |-> controllerState, buf |-> commandBuffer, exec |-> commandExecuted,
     lv |-> lastVelocity, grblState |-> grblState, grblSettings |-> grblSettings,
     macros |-> macros, deviceHandle |-> deviceHandle, display |-> display, out |-> << >>,
     enq |-> << >>, am |-> actualMode, qs |-> lastSwitch, qt |-> lastQueueType, tick |-> Null]

IsSwitch(text) == text \in {"G90\n", "G91\n"}

\* socket.emit(ch, port, text, arg): src names the code path, type the Command's type
\* (-1: not a Command); distance is controllerState.distance at the time of the call,
\* actual the controller's distance mode when the line arrives, prev the queue's
\* previous mode-switch line, prevType the type of the queue's previous line
Emit(c, ch, text, arg, src, type) ==
    [c EXCEPT !.out = Append(@, [ch |-> ch, text |-> text, arg |-> arg, src |-> src, type |-> type,
                                 distance |-> c.cs.distance, actual |-> c.am, prev |-> c.qs,
                                 prevType |-> c.qt]),
              !.am = IF ch = "write" THEN ModeAfter(@, text) ELSE @,
              !.qs = IF ch = "write" /\ src = "queue" /\ IsSwitch(text) THEN text ELSE @,
              !.qt = IF ch = "write" /\ src = "queue" THEN type ELSE @]

sendCommand(c, command, src) == Emit(c, "command", command, "", src, -1)

sendGCode(c, code, src) == Emit(c, "write", code \o "\n", "", src, -1)

\* processCommandBuffer with the assignment distance = Relative left out
processCommandBuffer_keepsAbsolute(c) ==
    IF Len(c.buf) > 0 /\ c.exec
    THEN LET c1 == IF c.buf[1].type = CommandType.Position /\ c.cs.distance = Distance.Absolute
                   THEN [c EXCEPT !.buf = <<[type |-> CommandType.Other, code |-> "G91"]>> \o @]
                   ELSE IF c.buf[1].type # CommandType.Position /\ c.cs.distance = Distance.Relative
                   THEN [c EXCEPT !.cs.distance = Distance.Absolute,
                                  !.buf = <<[type |-> CommandType.Other, code |-> "G90"]>> \o @]
                   ELSE c
             c2 == [c1 EXCEPT !.exec = FALSE]
             c3 == Emit(c2, "write", c2.buf[1].code \o "\n", "", "queue", c2.buf[1].type)
         IN [c3 EXCEPT !.buf = SubSeq(@, 2, Len(@))]
    ELSE IF Len(c.buf) = 0 /\ c.exec /\ c.cs.distance = Distance.Relative
    THEN Emit([c EXCEPT !.cs.distance = Distance.Absolute], "write", "G90\n", "", "queue",
              CommandType.Other)
    ELSE c

\* processCommandBuffer with the test distance === Relative of the idle branch left out
processCommandBuffer_idleG90(c) ==
    IF Len(c.buf) > 0 /\ c.exec
    THEN LET c1 == IF c.buf[1].type = CommandType.Position /\ c.cs.distance = Distance.Absolute
                   THEN [c EXCEPT !.cs.distance = Distance.Relative,
                                  !.buf = <<[type |-> CommandType.Other, code |-> "G91"]>> \o @]
                   ELSE IF c.buf[1].type # CommandType.Position /\ c.cs.distance = Distance.Relative
                   THEN [c EXCEPT !.cs.distance = Distance.Absolute,
                                  !.buf = <<[type |-> CommandType.Other, code |-> "G90"]>> \o @]
                   ELSE c
             c2 == [c1 EXCEPT !.exec = FALSE]
             c3 == Emit(c2, "write", c2.buf[1].code \o "\n", "", "queue", c2.buf[1].type)
         IN [c3 EXCEPT !.buf = SubSeq(@, 2, Len(@))]
    ELSE IF Len(c.buf) = 0 /\ c.exec
    THEN Emit([c EXCEPT !.cs.distance = Distance.Absolute], "write", "G90\n", "", "queue",
              CommandType.Other)
    ELSE c

\* processCommandBuffer without the else-if branch that writes G90 when idle
processCommandBuffer_noIdleReset(c) ==
    IF Len(c.buf) > 0 /\ c.exec
    THEN LET c1 == IF c.buf[1].type = CommandType.Position /\ c.cs.distance = Distance.Absolute
                   THEN [c EXCEPT !.cs.distance = Distance.Relative,
                                  !.buf = <<[type |-> CommandType.Other, code |-> "G91"]>> \o @]
                   ELSE IF c.buf[1].type # CommandType.Position /\ c.cs.distance = Distance.Relative
                   THEN [c EXCEPT !.cs.distance = Distance.Absolute,
                                  !.buf = <<[type |-> CommandType.Other, code |-> "G90"]>> \o @]
                   ELSE c
             c2 == [c1 EXCEPT !.exec = FALSE]
             c3 == Emit(c2, "write", c2.buf[1].code \o "\n", "", "queue", c2.buf[1].type)
         IN [c3 EXCEPT !.buf = SubSeq(@, 2, Len(@))]
    ELSE c

\* processCommandBuffer without the test of commandExecuted before a buffered command is sent
processCommandBuffer_noWait(c) ==
    IF Len(c.buf) > 0
    THEN LET c1 == IF c.buf[1].type = CommandType.Position /\ c.cs.distance = Distance.Absolute
                   THEN [c EXCEPT !.cs.distance = Distance.Relative,
                                  !.buf = <<[type |-> CommandType.Other, code |-> "G91"]>> \o @]
                   ELSE IF c.buf[1].type # CommandType.Position /\ c.cs.distance = Distance.Relative
                   THEN [c EXCEPT !.cs.distance = Distance.Absolute,
                                  !.buf = <<[type |-> CommandType.Other, code |-> "G90"]>> \o @]
                   ELSE c
             c2 == [c1 EXCEPT !.exec = FALSE]
             c3 == Emit(c2, "write", c2.buf[1].code \o "\n", "", "queue", c2.buf[1].type)
         IN [c3 EXCEPT !.buf = SubSeq(@, 2, Len(@))]
    ELSE IF Len(c.buf) = 0 /\ c.exec /\ c.cs.distance = Distance.Relative
    THEN Emit([c EXCEPT !.cs.distance = Distance.Absolute], "write", "G90\n", "", "queue",
              CommandType.Other)
    ELSE c

processCommandBuffer(c) ==
    IF Len(c.buf) > 0 /\ c.exec
    THEN LET c1 == IF c.buf[1].type = CommandType.Position /\ c.cs.distance = Distance.Absolute
                   THEN [c EXCEPT !.cs.distance = Distance.Relative,
                                  !.buf = <<[type |-> CommandType.Other, code |-> "G91"]>> \o @]
                   ELSE IF c.buf[1].type # CommandType.Position /\ c.cs.distance = Distance.Relative
                   THEN [c EXCEPT !.cs.distance = Distance.Absolute,
                                  !.buf = <<[type |-> CommandType.Other, code |-> "G90"]>> \o @]
                   ELSE c
             c2 == [c1 EXCEPT !.exec = FALSE]
             c3 == Emit(c2, "write", c2.buf[1].code \o "\n", "", "queue", c2.buf[1].type)
         IN [c3 EXCEPT !.buf = SubSeq(@, 2, Len(@))]
    ELSE IF Len(c.buf) = 0 /\ c.exec /\ c.cs.distance = Distance.Relative
    THEN Emit([c EXCEPT !.cs.distance = Distance.Absolute], "write", "G90\n", "", "queue",
              CommandType.Other)
    ELSE c

\* sendPositionGCode with unshift in place of push
sendPositionGCode_unshift(c, code) ==
    processCommandBuffer([c EXCEPT !.buf = <<[type |-> CommandType.Position, code |-> code]>> \o @,
                                   !.enq = Append(@, code)])

sendPositionGCode(c, code) ==
    processCommandBuffer([c EXCEPT !.buf = Append(@, [type |-> CommandType.Position, code |-> code]),
                                   !.enq = Append(@, code)])

\* runMacro with <= in the test against the length; macros[length] is undefined
runMacro_inclusive(c, macroIndex) ==
    IF macroIndex >= 0 /\ macroIndex <= Len(c.macros)
    THEN LET macroId == IF macroIndex < Len(c.macros) THEN c.macros[macroIndex + 1]
                        ELSE "undefined"
         IN Emit(Emit(c, "command", "macro:load", macroId, "macro", -1),
                 "command", "macro:run", macroId, "macro", -1)
    ELSE c

runMacro(c, macroIndex) ==
    IF macroIndex >= 0 /\ macroIndex < Len(c.macros)
    THEN LET macroId == c.macros[macroIndex + 1]
         IN Emit(Emit(c, "command", "macro:load", macroId, "macro", -1),
                 "command", "macro:run", macroId, "macro", -1)
    ELSE c

\* (v << 16) >> 16
encodeS16(v) == LET w == v % 65536 IN IF w >= 32768 THEN w - 65536 ELSE w

\* x | 0x8000 for x >= 0
Or8000(x) == IF (x \div 32768) % 2 = 1 THEN x ELSE x + 32768

\* encodeFloat without the sign flag
encodeFloat_unsigned(v) ==
    LET intV == IF v < 0 THEN -v ELSE v
        intPart == encodeS16(intV \div 10000)
        fract == encodeS16(intV % 10000)
    IN <<intPart, fract>>

\* v in ten-thousandths, so that Math.round(Math.abs(v) * 10000.0) is |v|
encodeFloat(v) ==
    LET intV == IF v < 0 THEN -v ELSE v
        intPart == encodeS16(intV \div 10000)
        fract == encodeS16(intV % 10000)
        fractPart == IF v < 0 THEN Or8000(fract) ELSE fract
    IN <<intPart, fractPart>>

\* buffer[byte] &= ~(1 << bit) when value is 0, buffer[byte] |= 1 << bit otherwise
setBit(buffer, byte, bit, value) ==
    LET isSet == (buffer[byte + 1] \div (2 ^ bit)) % 2 = 1
    IN IF value = 0
       THEN [buffer EXCEPT ![byte + 1] = IF isSet THEN @ - 2 ^ bit ELSE @]
       ELSE [buffer EXCEPT ![byte + 1] = IF isSet THEN @ ELSE @ + 2 ^ bit]

\* buffer.writeUInt16LE(value, offset), for value in 0..65535
writeUInt16LE(buffer, value, offset) ==
    [buffer EXCEPT ![offset + 1] = value % 256, ![offset + 2] = value \div 256]

\* the 42-byte logical buffer of displayEncode
displayBuffer(c) ==
    LET b0 == [i \in 1..42 |-> 0]
        b1 == [b0 EXCEPT ![1] = 254, ![2] = 253, ![3] = 12]
        b2 == setBit(b1, 3, 0, IF c.cs.jogMode = JogMode.CONTINUOUS THEN 0 ELSE 1)
        b3 == setBit(b2, 3, 7, IF c.cs.coordinateSystem = CoordinateSystem.workCoordinates THEN 1 ELSE 0)
        pos == IF c.cs.coordinateSystem = CoordinateSystem.workCoordinates
               THEN c.grblState.wpos ELSE c.grblState.mpos
        ex == encodeFloat(10 * pos.x)
        ey == encodeFloat(10 * pos.y)
        ez == encodeFloat(10 * pos.z)
        b4 == writeUInt16LE(writeUInt16LE(b3, ex[1], 4), ex[2], 6)
        b5 == writeUInt16LE(writeUInt16LE(b4, ey[1], 8), ey[2], 10)
        b6 == writeUInt16LE(writeUInt16LE(b5, ez[1], 12), ez[2], 14)
        b7 == writeUInt16LE(b6, c.cs.feedRate, 17)
        b8 == writeUInt16LE(b7, c.cs.spindle, 19)
    IN [b8 EXCEPT ![19 + 1] = 0, ![36 + 1] = 0]

\* displayPackets with the buffer index restarted for every report
displayPackets_restart(buffer) ==
    [packageIndex \in 1..6 |-> [j \in 1..8 |-> IF j = 1 THEN 6 ELSE buffer[j - 1]]]

\* the six 8-byte output reports: byte 6, then seven bytes of the buffer
displayPackets(buffer) ==
    [packageIndex \in 1..6 |->
        [j \in 1..8 |-> IF j = 1 THEN 6 ELSE buffer[7 * (packageIndex - 1) + (j - 1)]]]

\* displayEncode: six control transfers to the pendant, when a device is open
displayEncode(c) ==
    IF ~c.deviceHandle THEN c ELSE [c EXCEPT !.display = displayPackets(displayBuffer(c))]

-----------------------------------------------------------------------------
(* handleData *)

probeZ(c) ==
    LET c1 == sendGCode(c, "G91", "probeZ")
        c2 == sendGCode(c1, "G38.2 Z-" \o ToString(PROBE_DEPTH) \o " F" \o ToString(PROBE_FEEDRATE),
                        "probeZ")
        c3 == sendGCode(c2, "G90", "probeZ")
        c4 == sendGCode(c3, "G10 L20 P1 Z" \o FmtMilli(TOUCH_PLATE_THICKNESS), "probeZ")
        c5 == sendGCode(c4, "G91", "probeZ")
        c6 == sendGCode(c5, "G0 Z" \o ToString(RETRACTION_DISTANCE), "probeZ")
    IN sendGCode(c6, "G90", "probeZ")

\* spindlePlus without the cap
spindlePlus_uncapped(c) ==
    LET c1 == [c EXCEPT !.cs.spindle = @ + 500]
    IN sendGCode(c1, "S" \o ToString(c1.cs.spindle), "spindlePlus")

spindlePlus(c) ==
    LET c1 == [c EXCEPT !.cs.spindle = MathMin(@ + 500, MAX_SPINDLE_SPEED)]
    IN sendGCode(c1, "S" \o ToString(c1.cs.spindle), "spindlePlus")

spindleMinus(c) ==
    LET c1 == [c EXCEPT !.cs.spindle = MathMax(@ - 500, MIN_SPINDLE_SPEED)]
    IN sendGCode(c1, "S" \o ToString(c1.cs.spindle), "spindleMinus")

\* the switch on buttonCode, taken when buttonCode # 12
primaryButton(c, buttonCode) ==
    CASE buttonCode = buttonCodes.reset -> sendCommand(c, "gcode:reset", "reset")
      [] buttonCode = buttonCodes.stop -> sendCommand(c, "gcode:stop", "stop")
      [] buttonCode = buttonCodes.startPause ->
            IF c.cs.machineState = CncState.RUN THEN sendCommand(c, "gcode:pause", "startPause")
            ELSE IF c.cs.machineState = CncState.HOLD THEN sendCommand(c, "gcode:resume", "startPause")
            ELSE sendCommand(c, "gcode:start", "startPause")
      [] buttonCode = buttonCodes.machineHome -> sendCommand(c, "homing", "machineHome")
      [] buttonCode = buttonCodes.spindleOnOff ->
            IF c.grblState.spindle = 0
            THEN sendGCode(c, "M03 S" \o ToString(c.cs.spindle), "spindleOnOff")
            ELSE sendGCode(c, "M05", "spindleOnOff")
      [] buttonCode = buttonCodes.workingAreaHome ->
            IF c.cs.coordinateSystem = CoordinateSystem.machineCoordinates
            THEN sendGCode(c, "G54 G90 G0 X0 Y0 Z0", "workingAreaHome")
            ELSE sendGCode(c, "G54 G90 G0 X0 Y0 Z0", "workingAreaHome")
      [] buttonCode = buttonCodes.probeZ -> probeZ(c)
      [] buttonCode = buttonCodes.spindlePlus -> spindlePlus(c)
      [] buttonCode = buttonCodes.spindleMinus -> spindleMinus(c)
      [] buttonCode = buttonCodes.safeZ -> sendGCode(c, "G53 Z0", "safeZ")
      [] buttonCode = buttonCodes.continuous ->
            displayEncode([c EXCEPT !.cs.jogMode = JogMode.CONTINUOUS])
      [] buttonCode = buttonCodes.step ->
            displayEncode([c EXCEPT !.cs.jogMode = JogMode.STEP])
      [] buttonCode = buttonCodes.macro10 ->
            displayEncode([c EXCEPT !.cs.coordinateSystem =
                IF @ = CoordinateSystem.machineCoordinates
                THEN CoordinateSystem.workCoordinates
                ELSE CoordinateSystem.machineCoordinates])
      [] OTHER -> c

\* the switch on fnButtonCode, taken when buttonCode = 12
fnButton(c, fnButtonCode) ==
    CASE fnButtonCode = buttonCodes.reset -> sendCommand(c, "unlock", "unlock")
      [] fnButtonCode = buttonCodes.feedPlus -> runMacro(c, 0)
      [] fnButtonCode = buttonCodes.feedMinus -> runMacro(c, 1)
      [] fnButtonCode = buttonCodes.spindlePlus -> runMacro(c, 2)
      [] fnButtonCode = buttonCodes.spindleMinus -> runMacro(c, 3)
      [] fnButtonCode = buttonCodes.machineHome -> runMacro(c, 4)
      [] fnButtonCode = buttonCodes.safeZ -> runMacro(c, 5)
      [] fnButtonCode = buttonCodes.workingAreaHome -> runMacro(c, 6)
      [] fnButtonCode = buttonCodes.spindleOnOff -> runMacro(c, 7)
      [] fnButtonCode = buttonCodes.probeZ -> runMacro(c, 8)
      [] OTHER -> c

\* data.compare(lastBuffer) !== 0 guards the button switches
buttons(c, data, last) ==
    LET buttonCode == data[ControllerBuffer.BUTTON_CODE + 1]
        fnButtonCode == data[ControllerBuffer.FN_BUTTON_CODE + 1]
    IN IF last = Null \/ data # last
       THEN IF buttonCode # 12 THEN primaryButton(c, buttonCode) ELSE fnButton(c, fnButtonCode)
       ELSE c

jogCounts(data) ==
    IF data[ControllerBuffer.JOG + 1] > 128
    THEN data[ControllerBuffer.JOG + 1] - 256
    ELSE data[ControllerBuffer.JOG + 1]

AxisLetter(axis) ==
    CASE axis = Axis.X -> "X" [] axis = Axis.Y -> "Y" [] axis = Axis.Z -> "Z" [] axis = Axis.A -> "A"

\* the step branch with the jog dropped while a command is in flight, as in the
\* continuous branch
stepJog_dropsInFlight(c, jog) ==
    LET steps == IF c.cs.feed \in DOMAIN FeedStepMap THEN jog * FeedStepMap[c.cs.feed] ELSE NaN
    IN IF c.cs.axis \in {Axis.X, Axis.Y, Axis.Z, Axis.A} /\ c.exec
       THEN sendPositionGCode(c, "G0 " \o AxisLetter(c.cs.axis) \o FmtMilli(steps))
       ELSE c

\* jogMode === STEP && |jogCounts| > 0
stepJog(c, jog) ==
    LET steps == IF c.cs.feed \in DOMAIN FeedStepMap THEN jog * FeedStepMap[c.cs.feed] ELSE NaN
    IN IF c.cs.axis \in {Axis.X, Axis.Y, Axis.Z, Axis.A}
       THEN sendPositionGCode(c, "G0 " \o AxisLetter(c.cs.axis) \o FmtMilli(steps))
       ELSE c

\* k in thousandths
feedFactor(feed) ==
    CASE feed = Feed.MOVE_UNIT_2 -> 20
      [] feed = Feed.MOVE_UNIT_10 -> 100
      [] feed = Feed.MOVE_UNIT_30 -> 300
      [] feed = Feed.MOVE_UNIT_60 -> 600
      [] feed = Feed.MOVE_UNIT_100 -> 1000
      [] OTHER -> 0

\* maxVelocity in mm/min, from $110..$112
maxVelocityOf(c) ==
    CASE c.cs.axis = Axis.X -> parseFloat(c.grblSettings, "$110")
      [] c.cs.axis = Axis.Y -> parseFloat(c.grblSettings, "$111")
      [] c.cs.axis = Axis.Z -> parseFloat(c.grblSettings, "$112")
      [] OTHER -> 0

\* maxAcceleration in mm/s^2, from $120..$122
maxAccelerationOf(c) ==
    CASE c.cs.axis = Axis.X -> parseFloat(c.grblSettings, "$120")
      [] c.cs.axis = Axis.Y -> parseFloat(c.grblSettings, "$121")
      [] c.cs.axis = Axis.Z -> parseFloat(c.grblSettings, "$122")
      [] OTHER -> 0

\* milli mm/min
requestedVelocity(c, jog) ==
    MathMax(jsMul(1000, maxVelocityOf(c)),
            jsMul(jsMul(feedFactor(c.cs.feed), maxVelocityOf(c)), MathAbs(jog)))

\* milli mm/min; (maxAcceleration * timeElapsedMs) / 1000 is maxAcceleration * dt in milli
actualVelocity(c, jog, timeElapsedMs) ==
    MathMax(requestedVelocity(c, jog), jsAdd(c.lv, jsMul(maxAccelerationOf(c), timeElapsedMs)))

\* thousandths of a millimetre
jogDistance(c, jog, timeElapsedMs) ==
    jsMul(MathSign(jog), RoundDiv(jsMul(actualVelocity(c, jog, timeElapsedMs), timeElapsedMs), 60000))

\* continuousJog without the test of commandExecuted
continuousJog_always(c, jog, timeElapsedMs) ==
    LET c1 == [c EXCEPT !.buf = << >>]
        distance == jogDistance(c1, jog, timeElapsedMs)
    IN IF c1.cs.axis \in {Axis.X, Axis.Y, Axis.Z}
       THEN sendPositionGCode(c1, "G0 " \o AxisLetter(c1.cs.axis) \o FmtMilli(distance))
       ELSE c1

\* jogMode === CONTINUOUS && |jogCounts| > 0
continuousJog(c, jog, timeElapsedMs) ==
    LET c1 == [c EXCEPT !.buf = << >>,
                        !.tick = [lastVelocity |-> c.lv,
                                  requestedVelocity |-> requestedVelocity(c, jog),
                                  actualVelocity |-> actualVelocity(c, jog, timeElapsedMs),
                                  maxAcceleration |-> maxAccelerationOf(c),
                                  timeElapsedMs |-> timeElapsedMs, jogCounts |-> jog,
                                  axis |-> c.cs.axis, feed |-> c.cs.feed]]
        distance == jogDistance(c1, jog, timeElapsedMs)
    IN IF c1.exec /\ c1.cs.axis \in {Axis.X, Axis.Y, Axis.Z}
       THEN sendPositionGCode(c1, "G0 " \o AxisLetter(c1.cs.axis) \o FmtMilli(distance))
       ELSE c1

\* the final else branch without the discard
decay_keepsBuffer(c, timeElapsedMs) ==
    [c EXCEPT !.lv = MathMax(0, jsSub(@, jsMul(maxAccelerationOf(c), timeElapsedMs)))]

\* the final else branch: lastVelocity decays, the buffer is discarded
decay(c, timeElapsedMs) ==
    [c EXCEPT !.lv = MathMax(0, jsSub(@, jsMul(maxAccelerationOf(c), timeElapsedMs))),
              !.buf = << >>]

jogHandling(c, data, timeElapsedMs) ==
    LET jog == jogCounts(data)
    IN IF c.cs.jogMode = JogMode.STEP /\ MathAbs(jog) > 0 THEN stepJog(c, jog)
       ELSE IF c.cs.jogMode = JogMode.CONTINUOUS /\ MathAbs(jog) > 0
       THEN continuousJog(c, jog, timeElapsedMs)
       ELSE decay(c, timeElapsedMs)

handleData(c, data, last, timeElapsedMs) ==
    LET c1 == [c EXCEPT !.cs.axis = data[ControllerBuffer.AXIS + 1],
                        !.cs.feed = data[ControllerBuffer.FEED + 1]]
        c2 == buttons(c1, data, last)
    IN jogHandling(c2, data, timeElapsedMs)

\* the 'serialport:read' handler without the call of processCommandBuffer
serialportRead_noProcess(c, data) ==
    IF trim(data) = "ok"
    THEN [c EXCEPT !.exec = TRUE]
    ELSE c

\* socket.on("serialport:read", ...); a null or undefined data reads as "" (data || "")
serialportRead(c, data) ==
    IF trim(data) = "ok"
    THEN processCommandBuffer([c EXCEPT !.exec = TRUE])
    ELSE c

\* handleGrblData with a final else that falls back to IDLE
handleGrblData_elseIdle(c, state) ==
    LET c1 == [c EXCEPT !.grblState = state]
        c2 == IF state.activeState = "Run" THEN [c1 EXCEPT !.cs.machineState = CncState.RUN]
              ELSE IF state.activeState = "Hold" THEN [c1 EXCEPT !.cs.machineState = CncState.HOLD]
              ELSE [c1 EXCEPT !.cs.machineState = CncState.IDLE]
    IN displayEncode(c2)

handleGrblData(c, state) ==
    LET c1 == [c EXCEPT !.grblState = state]
        c2 == IF state.activeState = "Run" THEN [c1 EXCEPT !.cs.machineState = CncState.RUN]
              ELSE IF state.activeState = "Hold" THEN [c1 EXCEPT !.cs.machineState = CncState.HOLD]
              ELSE IF state.activeState = "Idle" THEN [c1 EXCEPT !.cs.machineState = CncState.IDLE]
              ELSE c1
    IN displayEncode(c2)

handleGrblSettings(c, settings) == [c EXCEPT !.grblSettings = settings]

-----------------------------------------------------------------------------
(* Bounds and inputs *)

MaxWire == 1
MaxBuffer == 1

Report(button, fn, feed, axis, jog) == <<4, 0, button, fn, feed, axis, jog, 0>>

\* Spec: jog reports in both modes, with and without a button that writes G-code
Reports ==
    {Report(b, 0, Feed.MOVE_UNIT_30, Axis.X, j) :
        b \in {0, buttonCodes.step, buttonCodes.continuous, buttonCodes.safeZ, buttonCodes.probeZ,
               buttonCodes.workingAreaHome},
        j \in {0, 1}}

Elapsed == {50}

SerialLines == {"ok", " ok\r\n", "error:9"}

NoSettings == << >>
SomeSettings == ("$110" :> 3000) @@ ("$111" :> 3000) @@ ("$112" :> 1000) @@
                ("$120" :> 500) @@ ("$121" :> 500) @@ ("$122" :> 100)
GrblSettingsSet == {SomeSettings}

\* SpecQueue: the step button held, the dial turning
MaxEnq == 3
QueueReports == {Report(buttonCodes.step, 0, Feed.MOVE_UNIT_30, Axis.X, j) : j \in {1, 2}}

\* SpecState: status pushes between reports with the start/pause button and the dial
GrblStates ==
    [activeState : {"Run", "Hold", "Idle", "Alarm"}, spindle : {0},
     wpos : {[x |-> 1500, y |-> 0, z |-> -250]}, mpos : {[x |-> 101500, y |-> 0, z |-> -5250]}]
StateReports ==
    {Report(b, 0, Feed.MOVE_UNIT_30, Axis.X, j) : b \in {0, buttonCodes.startPause}, j \in {0, 1}}

\* SpecSpindle: the spindle buttons pressed and released
SpindleReports ==
    {Report(b, 0, Feed.MOVE_UNIT_30, Axis.X, 0) :
        b \in {0, buttonCodes.spindlePlus, buttonCodes.spindleMinus, buttonCodes.spindleOnOff}}

\* SpecVelocity: the dial turning and resting in continuous mode, at two report
\* intervals, under two settings pushes
VelocityReports ==
    {Report(0, 0, f, a, j) :
        f \in {Feed.MOVE_UNIT_30, Feed.MOVE_UNIT_100}, a \in {Axis.X, Axis.Z}, j \in {0, 1, 5}}
VelocityElapsed == {10, 50}
SlowSettings == ("$110" :> 600) @@ ("$111" :> 600) @@ ("$112" :> 300) @@
                ("$120" :> 50) @@ ("$121" :> 50) @@ ("$122" :> 20)
VelocitySettings == {SomeSettings, SlowSettings}

\* SpecEncode: values of [-999.9999, 999.9999] on the 0.0001 grid, in ten-thousandths:
\* every integer part with fractions at both ends and around one half
EncodeInts == 0..999
EncodeFracs == {0, 1, 4999, 5000, 9999}
EncodeValues == {sg * (i * 10000 + f) : sg \in {-1, 1}, i \in EncodeInts, f \in EncodeFracs}

\* SpecMacro: the macro ids read from the macro file, and reports with the fn button
\* held and released
MacroLists == {<< >>, <<"m0">>, <<"m0", "m1", "m2">>}
MacroReports ==
    {Report(0, 0, Feed.MOVE_UNIT_30, Axis.X, j) : j \in {0, 1}} \cup
    {Report(buttonCodes.fn, f, Feed.MOVE_UNIT_30, Axis.X, j) :
        f \in {buttonCodes.feedPlus, buttonCodes.feedMinus, buttonCodes.spindlePlus,
               buttonCodes.spindleMinus, buttonCodes.probeZ},
        j \in {0, 1}}

\* SpecStep: the step button held, the dial turning either way on an axis or with the
\* axis switch off, at the smallest and at the 1 mm step
StepReports ==
    {Report(buttonCodes.step, 0, Feed.MOVE_UNIT_2, Axis.X, 3),
     Report(buttonCodes.step, 0, Feed.MOVE_UNIT_30, Axis.X, 255),
     Report(buttonCodes.step, 0, Feed.MOVE_UNIT_2, Axis.A, 255),
     Report(buttonCodes.step, 0, Feed.MOVE_UNIT_30, Axis.A, 3),
     Report(buttonCodes.step, 0, Feed.MOVE_UNIT_30, Axis.OFF, 3)}

\* SpecDisplay: the buttons that change a rendered field, pressed and released, between
\* status pushes, while the controller acknowledges nothing
DisplayReports ==
    {Report(b, 0, Feed.MOVE_UNIT_30, Axis.X, 0) :
        b \in {0, buttonCodes.step, buttonCodes.continuous, buttonCodes.macro10,
               buttonCodes.spindlePlus}}
DisplayStates == {state \in GrblStates : state.activeState = "Idle"}

\* SpecUsb: USB devices plugged and unplugged, the pendant (matching vendor and product
\* id) or another device
Devices == {"pendant", "other"}

\* SpecJog: every value of the jog byte, in continuous mode
JogBytes == 0..255
JogReports == {Report(0, 0, Feed.MOVE_UNIT_30, Axis.X, b) : b \in JogBytes}

\* SpecLive: the step button held, the dial turning or at rest
LiveReports == QueueReports \cup {Report(buttonCodes.step, 0, Feed.MOVE_UNIT_30, Axis.X, 0)}

-----------------------------------------------------------------------------
(* State machine *)

\* the fields the constructor sets, whatever the macro file holds
Constructed ==
    /\ controllerState = [axis |-> -1, feed |-> -1, machineState |-> CncState.IDLE, feedRate |-> 0,
                          spindle |-> 5000, jogMode |-> JogMode.CONTINUOUS,
                          coordinateSystem |-> CoordinateSystem.machineCoordinates,
                          distance |-> Distance.Absolute]
    /\ commandBuffer = << >>
    /\ commandExecuted = TRUE
    /\ lastBuffer = Null
    /\ lastVelocity = 0
    /\ grblState = [activeState |-> "", spindle |-> 0, wpos |-> [x |-> 0, y |-> 0, z |-> 0],
                    mpos |-> [x |-> 0, y |-> 0, z |-> 0]]
    /\ grblSettings = NoSettings
    /\ deviceHandle \in BOOLEAN
    /\ connected = deviceHandle
    /\ display = Null
    /\ wire = << >>
    /\ actualMode = Distance.Absolute
    /\ lastSwitch = ""
    /\ lastQueueType = -1
    /\ tick = Null
    /\ out = << >>
    /\ ev = "constructor"
    /\ enqLog = << >>
    /\ sentLog = << >>

\* no macro file, or one without macros
Init ==
    /\ Constructed
    /\ macros = << >>
    /\ enc = Null

Writes(o) == SelectSeq(o, LAMBDA e : e.ch = "write")

\* the lines among the emissions o, as they reach the controller
Lines(o) == [i \in 1..Len(Writes(o)) |-> [text |-> Writes(o)[i].text, src |-> Writes(o)[i].src]]

\* the fields of `this` after a handler returned c
Commit(c) ==
    /\ controllerState' = c.cs
    /\ commandBuffer' = c.buf
    /\ commandExecuted' = c.exec
    /\ lastVelocity' = c.lv
    /\ grblState' = c.grblState
    /\ grblSettings' = c.grblSettings
    /\ macros' = c.macros
    /\ deviceHandle' = c.deviceHandle
    /\ display' = c.display
    /\ actualMode' = c.am
    /\ lastSwitch' = c.qs
    /\ lastQueueType' = c.qt
    /\ tick' = c.tick
    /\ out' = c.out
    /\ UNCHANGED <<connected, enc>>

logs == <<enqLog, sentLog>>

\* handleData runs on a report of the open device, timeElapsedMs after the previous report
DataStep(data, timeElapsedMs) ==
    /\ deviceHandle
    /\ Commit(handleData(This, data, lastBuffer, timeElapsedMs))
    /\ lastBuffer' = data
    /\ wire' = wire \o Lines(out')
    /\ ev' = "data"

\* the 'serialport:read' handler runs on a line of the controller; "ok" acknowledges
\* the oldest line written
ReadStep(data) ==
    /\ trim(data) = "ok" => wire # << >>
    /\ Commit(serialportRead(This, data))
    /\ wire' = (IF trim(data) = "ok" THEN Tail(wire) ELSE wire) \o Lines(out')
    /\ ev' = "serialport:read"
    /\ UNCHANGED lastBuffer

\* an input report of the pendant
HandleData(data, timeElapsedMs) ==
    /\ Len(wire) <= MaxWire
    /\ Len(commandBuffer) <= MaxBuffer
    /\ DataStep(data, timeElapsedMs)
    /\ UNCHANGED logs

SerialportRead(data) ==
    /\ ReadStep(data)
    /\ UNCHANGED logs

GrblState(state) ==
    /\ Commit(handleGrblData(This, state))
    /\ ev' = "Grbl:state"
    /\ UNCHANGED <<lastBuffer, wire, logs>>

GrblSettings(settings) ==
    /\ Commit(handleGrblSettings(This, settings))
    /\ ev' = "Grbl:settings"
    /\ UNCHANGED <<lastBuffer, wire, logs>>

Next ==
    \/ \E data \in Reports, dt \in Elapsed : HandleData(data, dt)
    \/ \E data \in SerialLines : SerialportRead(data)
    \/ \E settings \in GrblSettingsSet : GrblSettings(settings)

Spec == Init /\ [][Next]_vars

-----------------------------------------------------------------------------
(* The queue alone: step-mode jog reports (the step button held, the dial    *)
(* turning in every report) and acknowledgments, with a log of the codes     *)
(* enqueued and of the codes the queue wrote.                                *)

\* the codes of the lines the queue wrote among the emissions o, mode switches left out
Sent(o) ==
    LET q == SelectSeq(o, LAMBDA e : e.ch = "write" /\ e.src = "queue" /\ ~IsSwitch(e.text))
    IN [i \in 1..Len(q) |-> SubSeq(q[i].text, 1, Len(q[i].text) - 1)]

Enqueue(data, timeElapsedMs) ==
    /\ Len(enqLog) < MaxEnq
    /\ DataStep(data, timeElapsedMs)
    /\ enqLog' = enqLog \o handleData(This, data, lastBuffer, timeElapsedMs).enq
    /\ sentLog' = sentLog \o Sent(out')

Ack ==
    /\ ReadStep("ok")
    /\ sentLog' = sentLog \o Sent(out')
    /\ UNCHANGED enqLog

NextQueue ==
    \/ \E data \in QueueReports, dt \in Elapsed : Enqueue(data, dt)
    \/ Ack

SpecQueue == Init /\ [][NextQueue]_vars

-----------------------------------------------------------------------------
(* Step jogging on several axes and step sizes, with the log of the codes enqueued *)

NextStep ==
    \/ \E data \in StepReports, dt \in Elapsed : Enqueue(data, dt)
    \/ Ack

SpecStep == Init /\ [][NextStep]_vars

-----------------------------------------------------------------------------
(* Step jogging with the dial coming to rest, every written line acknowledged in the end *)

NextLive ==
    \/ \E data \in LiveReports, dt \in Elapsed : Enqueue(data, dt)
    \/ Ack

\* the controller answers every line: an acknowledgment that stays due arrives
SpecLive == Init /\ [][NextLive]_vars /\ WF_vars(Ack)

-----------------------------------------------------------------------------
(* Status pushes between reports, acknowledgments and settings pushes *)

NextState ==
    \/ \E data \in StateReports, dt \in Elapsed : HandleData(data, dt)
    \/ \E data \in SerialLines : SerialportRead(data)
    \/ \E state \in GrblStates : GrblState(state)
    \/ \E settings \in GrblSettingsSet : GrblSettings(settings)

SpecState == Init /\ [][NextState]_vars

-----------------------------------------------------------------------------
(* The spindle buttons between acknowledgments and settings pushes *)

NextSpindle ==
    \/ \E data \in SpindleReports, dt \in Elapsed : HandleData(data, dt)
    \/ \E data \in SerialLines : SerialportRead(data)
    \/ \E settings \in GrblSettingsSet : GrblSettings(settings)

SpecSpindle == Init /\ [][NextSpindle]_vars

-----------------------------------------------------------------------------
(* Continuous jogging between acknowledgments and settings pushes *)

NextVelocity ==
    \/ \E data \in VelocityReports, dt \in VelocityElapsed : HandleData(data, dt)
    \/ \E data \in SerialLines : SerialportRead(data)
    \/ \E settings \in VelocitySettings : GrblSettings(settings)

SpecVelocity == Init /\ [][NextVelocity]_vars

-----------------------------------------------------------------------------
(* encodeFloat applied to one value *)

InitEncode ==
    /\ Constructed
    /\ macros = << >>
    /\ enc \in {[v |-> v, words |-> Null] : v \in EncodeValues}

EncodeFloat ==
    /\ enc.words = Null
    /\ enc' = [enc EXCEPT !.words = encodeFloat(enc.v)]
    /\ UNCHANGED <<controllerState, commandBuffer, commandExecuted, lastBuffer, lastVelocity,
                   grblState, grblSettings, macros, deviceHandle, connected, display, wire,
                   actualMode, lastSwitch, lastQueueType, tick, out, ev, enqLog, sentLog>>

NextEncode == EncodeFloat

SpecEncode == InitEncode /\ [][NextEncode]_vars

-----------------------------------------------------------------------------
(* The fn button with a macro file read at construction *)

InitMacro ==
    /\ Constructed
    /\ macros \in MacroLists
    /\ enc = Null

NextMacro ==
    \/ \E data \in MacroReports, dt \in Elapsed : HandleData(data, dt)
    \/ \E data \in SerialLines : SerialportRead(data)

SpecMacro == InitMacro /\ [][NextMacro]_vars

-----------------------------------------------------------------------------
(* The buttons that change a rendered field, between status pushes *)

NextDisplay ==
    \/ \E data \in DisplayReports, dt \in Elapsed : HandleData(data, dt)
    \/ \E state \in DisplayStates : GrblState(state)

SpecDisplay == Init /\ [][NextDisplay]_vars

-----------------------------------------------------------------------------
(* The pendant unplugged and plugged again while jogging in STEP mode *)

\* handleDetachedUsbDevice: only this.connected changes
HandleDetachedUsbDevice(device) ==
    /\ connected' = IF connected /\ device = "pendant" THEN FALSE ELSE connected
    /\ ev' = "detach"
    /\ out' = << >>
    /\ tick' = Null
    /\ UNCHANGED <<controllerState, commandBuffer, commandExecuted, lastBuffer, lastVelocity,
                   grblState, grblSettings, macros, deviceHandle, display, wire, actualMode,
                   lastSwitch, lastQueueType, enc, enqLog, sentLog>>

\* handleAttachedUsbDevice: connectController finds the pendant that was plugged in, opens
\* it and polls its endpoint again
HandleAttachedUsbDevice(device) ==
    /\ connected' = IF ~connected /\ device = "pendant" THEN TRUE ELSE connected
    /\ deviceHandle' = IF ~connected /\ device = "pendant" THEN TRUE ELSE deviceHandle
    /\ ev' = "attach"
    /\ out' = << >>
    /\ tick' = Null
    /\ UNCHANGED <<controllerState, commandBuffer, commandExecuted, lastBuffer, lastVelocity,
                   grblState, grblSettings, macros, display, wire, actualMode,
                   lastSwitch, lastQueueType, enc, enqLog, sentLog>>

\* a report of the pendant while it is plugged in
EndpointData(data, timeElapsedMs) ==
    /\ connected
    /\ HandleData(data, timeElapsedMs)

NextUsb ==
    \/ \E data \in QueueReports, dt \in Elapsed : EndpointData(data, dt)
    \/ \E data \in SerialLines : SerialportRead(data)
    \/ \E device \in Devices : HandleDetachedUsbDevice(device)
    \/ \E device \in Devices : HandleAttachedUsbDevice(device)

SpecUsb == Init /\ [][NextUsb]_vars

-----------------------------------------------------------------------------
(* Every value of the jog byte *)

NextJog == \E data \in JogReports, dt \in Elapsed : HandleData(data, dt)

SpecJog == Init /\ [][NextJog]_vars

-----------------------------------------------------------------------------
(* The command queue and the distance mode *)

ButtonLines(o) == SelectSeq(o, LAMBDA e : e.ch = "write" /\ e.src # "queue")
InFlight == {i \in 1..Len(wire) : wire[i].src = "queue"}

\* C1: the lines written by the command queue (the G90 / G91 lines it inserts or sends
\* proactively included) that are not yet acknowledged number at most one.
C1_AtMostOneInFlight == Cardinality(InFlight) <= 1

\* C2: every jog increment written by the queue reaches the controller while the
\* controller's distance mode, set by the last G90 / G91 of any line on the wire, is relative.
C2_JogArrivesRelative ==
    \A i \in 1..Len(out) :
        (out[i].ch = "write" /\ out[i].src = "queue" /\ out[i].type = CommandType.Position)
            => out[i].actual = Distance.Relative

\* C3: every G-code line issued by a button is written while distanceMode is ABSOLUTE.
C3_ButtonsWrittenAbsolute ==
    \A i \in 1..Len(out) :
        (out[i].ch = "write" /\ out[i].src # "queue") => out[i].distance = Distance.Absolute

\* C4 as claimed: when the queue writes a line, a POSITION command is written only with
\* distanceMode RELATIVE and an OTHER command (G91 and G90 included) only with ABSOLUTE.
C4_WriteMatchesMode ==
    \A i \in 1..Len(out) :
        (out[i].ch = "write" /\ out[i].src = "queue") =>
            /\ out[i].type = CommandType.Position => out[i].distance = Distance.Relative
            /\ out[i].type = CommandType.Other => out[i].distance = Distance.Absolute

\* C4 amended: a POSITION command is written only with distanceMode RELATIVE, every OTHER
\* command but G91 only with ABSOLUTE, and the G91 line itself with distanceMode already
\* set to RELATIVE.
C4_WriteMatchesModeSet ==
    \A i \in 1..Len(out) :
        (out[i].ch = "write" /\ out[i].src = "queue") =>
            /\ out[i].type = CommandType.Position => out[i].distance = Distance.Relative
            /\ (out[i].type = CommandType.Other /\ out[i].text # "G91\n")
                   => out[i].distance = Distance.Absolute
            /\ out[i].text = "G91\n" =>
                   (out[i].type = CommandType.Other /\ out[i].distance = Distance.Relative)

\* the queue has written G91 and, on a later acknowledgment, a jog increment
C4_Witness ==
    /\ ev = "serialport:read"
    /\ \E i \in 1..Len(out) :
          /\ out[i].src = "queue" /\ out[i].type = CommandType.Position
          /\ out[i].prev = "G91\n"

\* C5: the mode-switch lines written by the queue strictly alternate, starting with G91.
C5_SwitchesAlternate ==
    \A i \in 1..Len(out) :
        (out[i].ch = "write" /\ out[i].src = "queue" /\ IsSwitch(out[i].text)) =>
            /\ out[i].text # out[i].prev
            /\ out[i].prev = "" => out[i].text = "G91\n"

\* the queue writes G91 after it has written G91 and G90 before
C5_Witness ==
    \E i \in 1..Len(out) :
        out[i].src = "queue" /\ out[i].text = "G91\n" /\ out[i].prev = "G90\n"

\* C6: with enqueue and acknowledgment events only, the lines written by the queue, mode
\* switches removed, are a prefix of the enqueued commands in enqueue order.
C6_SentIsPrefixOfEnqueued ==
    /\ Len(sentLog) <= Len(enqLog)
    /\ \A i \in 1..Len(sentLog) : sentLog[i] = enqLog[i]

\* two different commands were enqueued and both were written
C6_Witness == Len(sentLog) >= 2 /\ sentLog[1] # sentLog[2]

\* C15: between event handlers, distanceMode RELATIVE implies commandExecuted is false;
\* and whenever commandExecuted is true the command buffer is empty and distanceMode is
\* ABSOLUTE: the queue never rests idle in relative mode.
C15_NeverIdleRelative ==
    /\ controllerState.distance = Distance.Relative => ~commandExecuted
    /\ commandExecuted => (commandBuffer = << >> /\ controllerState.distance = Distance.Absolute)

\* an acknowledgment released the last jog increment: relative mode, buffer empty, the
\* increment in flight
C15_Witness ==
    /\ ev = "serialport:read"
    /\ controllerState.distance = Distance.Relative
    /\ commandBuffer = << >> /\ ~commandExecuted
    /\ \E i \in 1..Len(out) : out[i].src = "queue" /\ out[i].type = CommandType.Position

\* the queue writes G90 only after it wrote a POSITION line
QueueG90AfterPosition ==
    \A i \in 1..Len(out) :
        (out[i].ch = "write" /\ out[i].src = "queue" /\ out[i].text = "G90\n")
            => out[i].prevType = CommandType.Position

\* C16: every G91 written by the queue is followed by at least one POSITION line written
\* by the queue before the queue writes its next G90.
C16_SwitchesNecessary == QueueG90AfterPosition

\* C17: while commandExecuted is false the queue writes nothing: an input report handled
\* with a queue command outstanding makes processCommandBuffer write no line and leaves the
\* command outstanding, so no sequence of reports without an 'ok' line gets a line written.
C17_StalledWithoutAck ==
    [][(~commandExecuted /\ ev' = "data")
        => /\ \A i \in 1..Len(out') : out'[i].src # "queue"
           /\ ~commandExecuted']_vars

\* step-mode jog reports piled up behind a command that is not acknowledged
C17_Witness ==
    /\ ev = "data" /\ ~commandExecuted
    /\ Len(commandBuffer) >= 2
    /\ out = << >>

NoQueueWrite(o) == \A i \in 1..Len(o) : o[i].src # "queue"

\* C18: a continuous-mode report with non-zero delta handled while commandExecuted is
\* false enqueues and writes no jog command, and after any continuous-mode report with
\* non-zero delta the command buffer holds at most one unsent command.
C18_ContinuousDropsInFlight ==
    [][(/\ ev' = "data"
        /\ controllerState'.jogMode = JogMode.CONTINUOUS
        /\ jogCounts(lastBuffer') # 0)
       => /\ Len(commandBuffer') <= 1
          /\ ~commandExecuted => (commandBuffer' = << >> /\ NoQueueWrite(out'))]_vars

\* a continuous-mode tick was computed and dropped with a queue line in flight
C18_Witness ==
    /\ ev = "data" /\ tick # Null
    /\ controllerState.jogMode = JogMode.CONTINUOUS /\ jogCounts(lastBuffer) # 0
    /\ ~commandExecuted /\ commandBuffer = << >> /\ NoQueueWrite(out)
    /\ \E i \in 1..Len(wire) : wire[i].src = "queue"

\* C19: after a report whose jog delta is zero, in either jog mode, the command buffer is
\* empty, so nothing of it is written later; the lines already written stay as they are
\* and commandExecuted and distanceMode are unchanged.
C19_ZeroDeltaDiscards ==
    [][(ev' = "data" /\ jogCounts(lastBuffer') = 0)
       => /\ commandBuffer' = << >>
          /\ NoQueueWrite(out')
          /\ SubSeq(wire', 1, Len(wire)) = wire
          /\ commandExecuted' = commandExecuted
          /\ controllerState'.distance = controllerState.distance]_vars

\* a zero-delta report arrived in STEP mode after the queue wrote G91 and before it sent
\* the jog command: the command is gone, G91 is still in flight
C19_Witness ==
    /\ ev = "data" /\ jogCounts(lastBuffer) = 0
    /\ controllerState.jogMode = JogMode.STEP
    /\ commandBuffer = << >> /\ ~commandExecuted
    /\ controllerState.distance = Distance.Relative
    /\ lastQueueType = CommandType.Other /\ lastSwitch = "G91\n"
    /\ \E i \in 1..Len(wire) : wire[i].text = "G91\n" /\ wire[i].src = "queue"

\* 'G0 <axis><delta * stepSize>' of a report, written out for the step sizes 0.001 mm
\* (feed byte 13) and 1 mm (feed byte 16) and the deltas 3 and -1 (jog byte 255)
StepCode(data) ==
    LET a == data[ControllerBuffer.AXIS + 1]
        f == data[ControllerBuffer.FEED + 1]
        j == data[ControllerBuffer.JOG + 1]
        letter == IF a = 17 THEN "X" ELSE IF a = 18 THEN "Y" ELSE IF a = 19 THEN "Z" ELSE "A"
        amount == CASE f = 13 /\ j = 3 -> "0.003"
                    [] f = 13 /\ j = 255 -> "-0.001"
                    [] f = 16 /\ j = 3 -> "3"
                    [] f = 16 /\ j = 255 -> "-1"
    IN "G0 " \o letter \o amount

\* C20: in STEP mode every report with non-zero jog delta and axis X, Y, Z or A enqueues
\* exactly one POSITION command 'G0 <axis><delta * stepSize>', also with a command in
\* flight and also when the report is byte-identical to the previous one; with the axis
\* OFF nothing is enqueued.
C20_StepEnqueuesOne ==
    [][(/\ ev' = "data"
        /\ controllerState'.jogMode = JogMode.STEP
        /\ jogCounts(lastBuffer') # 0)
       => enqLog' = enqLog \o (IF lastBuffer'[ControllerBuffer.AXIS + 1] \in {17, 18, 19, 20}
                               THEN <<StepCode(lastBuffer')>>
                               ELSE << >>)]_vars

\* the same report twice in STEP mode, the second with a command in flight: two commands
C20_Witness ==
    /\ ev = "data" /\ controllerState.jogMode = JogMode.STEP
    /\ ~commandExecuted
    /\ Len(enqLog) >= 2
    /\ enqLog[Len(enqLog)] = "G0 A-0.001" /\ enqLog[Len(enqLog) - 1] = "G0 A-0.001"
    /\ Len(commandBuffer) >= 2

\* C24 as claimed: in STEP mode, with every written line acknowledged in the end, every
\* POSITION command enqueued is eventually written: once n commands were enqueued, in the
\* end n were written.
C24_EnqueuedEventuallyWritten ==
    \A n \in 1..MaxEnq : (Len(enqLog) >= n) ~> (Len(sentLog) >= n)

\* the POSITION commands waiting in the buffer: the last Pending of the enqueued ones
Pending == Len(SelectSeq(commandBuffer, LAMBDA cmd : cmd.type = CommandType.Position))

\* the enqueued commands that have left the buffer
Left == Len(enqLog) - Pending

\* commands leave the buffer written, or all at once by a report with zero jog delta
LeavesWrittenOrDiscarded ==
    IF ev' = "data" /\ jogCounts(lastBuffer') = 0
    THEN Pending' = 0 /\ sentLog' = sentLog
    ELSE Left' - Left = Len(sentLog') - Len(sentLog)

\* C24 amended: every POSITION command enqueued in STEP mode eventually leaves the buffer,
\* and it leaves it written to the controller unless a later report with zero jog delta
\* arrives while it is still buffered, which discards it.
C24_WrittenOrDiscarded ==
    /\ \A n \in 1..MaxEnq : (Len(enqLog) >= n) ~> (Left >= n)
    /\ [][LeavesWrittenOrDiscarded]_vars

\* of two commands enqueued one was written and one discarded
C24_Witness ==
    /\ Len(enqLog) = 2 /\ Len(sentLog) = 1 /\ Pending = 0
    /\ commandExecuted

-----------------------------------------------------------------------------
(* Buttons *)

ProbeLines ==
    <<"G91\n", "G38.2 Z-10 F20\n", "G90\n", "G10 L20 P1 Z24.2\n", "G91\n", "G0 Z4\n", "G90\n">>

Texts(o) == [i \in 1..Len(o) |-> o[i].text]

\* C7: a probe-Z report writes exactly the seven probe lines in order, and no other line
\* is written from the first of them until the last of them is acknowledged.
C7_ProbeUninterrupted ==
    /\ (ev = "data" /\ \E i \in 1..Len(out) : out[i].src = "probeZ")
          => Texts(Writes(out)) = ProbeLines
    /\ \A i \in 1..Len(wire) :
          wire[i].src = "probeZ" => \A j \in i..Len(wire) : wire[j].src = "probeZ"
    /\ Cardinality({i \in 1..Len(wire) : wire[i].src = "probeZ"}) <= Len(ProbeLines)

ActionButtons == {buttonCodes.safeZ, buttonCodes.probeZ}
ButtonOf(data) == data[ControllerBuffer.BUTTON_CODE + 1]

\* C9: while the button code of consecutive reports stays the same, the button's action
\* is performed for the first of them only, also when other bytes of the report change.
C9_ButtonFiresOnce ==
    [][(/\ ev' = "data"
        /\ lastBuffer # Null
        /\ ButtonOf(lastBuffer') = ButtonOf(lastBuffer)
        /\ ButtonOf(lastBuffer') \in ActionButtons)
       => ButtonLines(out') = << >>]_vars

\* C8: the spindle target is a multiple of 500 within [5000, 25000]; spindle-plus sets
\* it to min(spindle + 500, 25000), spindle-minus to max(spindle - 500, 5000), each press
\* writes S<new value>, and no other event changes it.
SpindleInRange ==
    /\ controllerState.spindle >= 5000
    /\ controllerState.spindle <= 25000
    /\ controllerState.spindle % 500 = 0

\* the report handled by this step differs from the previous one and carries button b
Pressed(b) == ev' = "data" /\ lastBuffer' # lastBuffer /\ ButtonOf(lastBuffer') = b

SpindleStep ==
    LET old == controllerState.spindle
        new == controllerState'.spindle
    IN IF Pressed(buttonCodes.spindlePlus)
       THEN /\ new = (IF old + 500 <= 25000 THEN old + 500 ELSE 25000)
            /\ Texts(Writes(out')) = <<"S" \o ToString(new) \o "\n">>
       ELSE IF Pressed(buttonCodes.spindleMinus)
       THEN /\ new = (IF old - 500 >= 5000 THEN old - 500 ELSE 5000)
            /\ Texts(Writes(out')) = <<"S" \o ToString(new) \o "\n">>
       ELSE new = old

C8_SpindleBounded == []SpindleInRange /\ [][SpindleStep]_vars

\* spindle-plus was pressed with the target at the cap
C8_Witness ==
    /\ controllerState.spindle = 25000
    /\ ev = "data" /\ ButtonOf(lastBuffer) = buttonCodes.spindlePlus
    /\ Texts(Writes(out)) = <<"S25000\n">>
    /\ \E i \in 1..Len(wire) - 1 : wire[i].text = "S25000\n"

-----------------------------------------------------------------------------
(* Machine state *)

MachineStateFor(activeState, old) ==
    CASE activeState = "Run" -> CncState.RUN
      [] activeState = "Hold" -> CncState.HOLD
      [] activeState = "Idle" -> CncState.IDLE
      [] OTHER -> old

\* C10: machineState changes in the status handler only: "Run" sets RUN, "Hold" HOLD,
\* "Idle" IDLE, any other string leaves it; no report, acknowledgment or settings push
\* changes it.
C10_MachineStateFrame ==
    [][controllerState'.machineState =
          IF ev' = "Grbl:state"
          THEN MachineStateFor(grblState'.activeState, controllerState.machineState)
          ELSE controllerState.machineState]_vars

\* a status push with an unknown activeState arrived while RUN
C10_Witness ==
    /\ ev = "Grbl:state"
    /\ grblState.activeState = "Alarm"
    /\ controllerState.machineState = CncState.RUN

-----------------------------------------------------------------------------
(* The velocity ramp *)

TickIsNumeric(t) ==
    /\ t # Null
    /\ ~isNaN(t.lastVelocity) /\ ~isNaN(t.actualVelocity) /\ ~isNaN(t.maxAcceleration)

\* the velocity of a tick exceeds the velocity carried from the previous tick by at most
\* Amax * dt (velocities in thousandths of mm/min, Amax * dt in thousandths)
TickBounded ==
    TickIsNumeric(tick) =>
        tick.actualVelocity <= tick.lastVelocity + tick.maxAcceleration * tick.timeElapsedMs

\* two consecutive ticks with the same delta, dt, axis, feed and settings
TickMonotone ==
    (/\ TickIsNumeric(tick) /\ TickIsNumeric(tick')
     /\ tick'.jogCounts = tick.jogCounts /\ tick'.timeElapsedMs = tick.timeElapsedMs
     /\ tick'.axis = tick.axis /\ tick'.feed = tick.feed
     /\ grblSettings' = grblSettings)
        => tick'.actualVelocity >= tick.actualVelocity

\* C11: in every continuous-jog tick the actual velocity exceeds lastVelocity by at most
\* Amax * dt, and for constant delta and dt it never decreases from one tick to the next.
C11_AccelerationLimited == []TickBounded /\ [][TickMonotone]_vars

-----------------------------------------------------------------------------
(* The display protocol *)

\* the value, in ten-thousandths, a pendant reads from the two words: bit 15 of the
\* fractional word is the sign, its low 15 bits the fraction
DecodeWords(words) ==
    LET magnitude == words[1] * 10000 + (words[2] % 32768)
    IN IF words[2] \div 32768 = 1 THEN -magnitude ELSE magnitude

\* C12: for every v of [-999.9999, 999.9999] on the 0.0001 grid, the words of
\* encodeFloat(v) decode to v within 0.0001, and the low 15 bits of the fractional word
\* are in 0..9999.
C12_EncodeRoundTrip ==
    (enc # Null /\ enc.words # Null) =>
        /\ DecodeWords(enc.words) - enc.v \in -1..1
        /\ enc.words[2] % 32768 \in 0..9999

\* a negative value with a fraction was encoded
C12_Witness ==
    /\ enc # Null /\ enc.words # Null
    /\ enc.v = -9999999
    /\ enc.words = <<999, 32768 + 9999>>

\* the bytes after the report id of the reports, in the order of transmission
RECURSIVE Payload(_)
Payload(reports) ==
    IF reports = << >> THEN << >> ELSE Tail(Head(reports)) \o Payload(Tail(reports))

\* C13: a display encode makes a 42-byte logical buffer and exactly six 8-byte reports,
\* sent in order; report n (0..5) is byte 6 followed by the logical bytes 7n .. 7n+6, so
\* the bytes 1..7 of the six reports, concatenated, are the buffer.
C13_DisplayFrame ==
    /\ display # Null =>
          /\ Len(display) = 6
          /\ \A n \in 1..6 : Len(display[n]) = 8 /\ display[n][1] = 6
          /\ Len(Payload(display)) = 42
    /\ (ev = "Grbl:state" /\ deviceHandle) =>
          /\ Len(displayBuffer(This)) = 42
          /\ Payload(display) = displayBuffer(This)
          /\ \A n \in 0..5 : \A k \in 0..6 :
                 display[n + 1][k + 2] = displayBuffer(This)[7 * n + k + 1]

\* a status push with machine position X 101.5 was encoded: 101 and the low byte of 5000
\* in the first report, the high byte of 5000 in the second
C13_Witness ==
    /\ ev = "Grbl:state" /\ deviceHandle
    /\ display[1] = <<6, 254, 253, 12, 0, 101, 0, 136>>
    /\ display[2][2] = 19

-----------------------------------------------------------------------------
(* Macros *)

\* the (text, arg) pairs of the commands emitted for macros
MacroCommands(o) ==
    LET q == SelectSeq(o, LAMBDA e : e.ch = "command" /\ e.src = "macro")
    IN [i \in 1..Len(q) |-> <<q[i].text, q[i].arg>>]

\* what runMacro(i) is to emit with the macro list m
MacroPair(m, i) ==
    IF 0 <= i /\ i < Len(m) THEN <<(<<"macro:load", m[i + 1]>>), (<<"macro:run", m[i + 1]>>)>>
    ELSE << >>

\* the macro slot of an fn-button code, -1 when it runs no macro
SlotOf(fnButtonCode) ==
    CASE fnButtonCode = buttonCodes.feedPlus -> 0
      [] fnButtonCode = buttonCodes.feedMinus -> 1
      [] fnButtonCode = buttonCodes.spindlePlus -> 2
      [] fnButtonCode = buttonCodes.spindleMinus -> 3
      [] fnButtonCode = buttonCodes.machineHome -> 4
      [] fnButtonCode = buttonCodes.safeZ -> 5
      [] fnButtonCode = buttonCodes.workingAreaHome -> 6
      [] fnButtonCode = buttonCodes.spindleOnOff -> 7
      [] fnButtonCode = buttonCodes.probeZ -> 8
      [] OTHER -> -1

\* runMacro(i), called in the current state, emits the pair or nothing and leaves the
\* queue alone
RunMacroFrame ==
    \A i \in -1..9 :
        LET r == runMacro(This, i)
        IN /\ MacroCommands(r.out) = MacroPair(macros, i)
           /\ Len(r.out) = Len(MacroPair(macros, i))
           /\ r.buf = commandBuffer
           /\ r.exec = commandExecuted
           /\ r.cs.distance = controllerState.distance

\* a report that differs from the previous one, with the fn button held, emits the pair
\* of its slot or nothing; no other event emits a macro command
RunMacroStep ==
    MacroCommands(out') =
        IF ev' = "data" /\ lastBuffer' # lastBuffer /\ ButtonOf(lastBuffer') = buttonCodes.fn
        THEN MacroPair(macros, SlotOf(lastBuffer'[ControllerBuffer.FN_BUTTON_CODE + 1]))
        ELSE << >>

\* C14: runMacro(i) emits exactly 'macro:load' then 'macro:run' for macros[i] when
\* 0 <= i < length of the macro list and nothing otherwise, and leaves commandBuffer,
\* commandExecuted and distanceMode unchanged.
C14_RunMacro == []RunMacroFrame /\ [][RunMacroStep]_vars

\* the second of three macros was run while a jog command was in flight
C14_Witness ==
    /\ ev = "data" /\ Len(macros) = 3
    /\ MacroCommands(out) = <<(<<"macro:load", "m1">>), (<<"macro:run", "m1">>)>>
    /\ ~commandExecuted /\ controllerState.distance = Distance.Relative

\* the status byte (jog mode in bit 0, coordinate system in bit 7) and the two bytes of
\* the spindle word of a 42-byte logical buffer
RenderedFields(buffer) == <<buffer[3 + 1], buffer[19 + 1], buffer[20 + 1]>>

\* C21: with a device open, after every event handler the last display frame sent encodes
\* the current jogMode, coordinateSystem and spindle target, as displayEncode lays them out.
C21_DisplayCurrent ==
    (deviceHandle /\ display # Null)
        => RenderedFields(Payload(display)) = RenderedFields(displayBuffer(This))

-----------------------------------------------------------------------------
(* Disconnect *)

\* the pendant was connected and has been unplugged
Detached == deviceHandle /\ ~connected

\* C22: after a detach no in-flight command state survives: the command buffer is empty,
\* and no acknowledgment that arrives while the pendant is gone makes the queue write a
\* command that was queued before.
C22_DrainedOnDetach ==
    Detached =>
        /\ commandBuffer = << >>
        /\ \A i \in 1..Len(out) :
              ~(out[i].src = "queue" /\ out[i].type = CommandType.Position)

-----------------------------------------------------------------------------
(* The jog byte *)

\* C23: the jog delta is the jog byte read as a signed 8-bit two's-complement value: b for
\* b < 128 and b - 256 otherwise, so it lies in [-128, 127] and is negative exactly when
\* bit 7 of the byte is set.
C23_JogIsSigned8 ==
    (ev = "data" /\ tick # Null) =>
        LET b == lastBuffer[ControllerBuffer.JOG + 1]
        IN /\ tick.jogCounts = (IF b < 128 THEN b ELSE b - 256)
           /\ tick.jogCounts \in -128..127
           /\ tick.jogCounts < 0 <=> b \div 128 = 1

-----------------------------------------------------------------------------
(* The velocity carried between ticks *)

\* after a tick that computed a numeric velocity, lastVelocity is that velocity
LastVelocityCarried == TickIsNumeric(tick) => lastVelocity = tick.actualVelocity

\* with the acceleration settings received, a handler leaves a non-negative lastVelocity
\* non-negative
LastVelocityStaysNonNegative ==
    (grblSettings # NoSettings /\ ~isNaN(lastVelocity) /\ lastVelocity >= 0)
        => (~isNaN(lastVelocity') /\ lastVelocity' >= 0)

\* C25: lastVelocity is carried across continuous-jog ticks: after a tick computes the
\* actual velocity a, lastVelocity equals a (no handler in between changes it), so the next
\* tick ramps from a; and lastVelocity is >= 0 wherever Amax and dt are non-negative.
C25_LastVelocityCarried == []LastVelocityCarried /\ [][LastVelocityStaysNonNegative]_vars

====
